---- MODULE Spec2Model ----
(***************************************************************************)
(* Model of librustc_incremental/persist/hash.rs: the metadata hash loader *)
(* (MetadataHashLoader) that answers "what is the fingerprint of DefId d   *)
(* of an upstream crate", and the dep-node classifier HashContext::hash.   *)
(*                                                                         *)
(* One compiler process (the reader) runs metadata_hash calls one after    *)
(* the other.  The session directories of the upstream crates live on a    *)
(* disk that a writer (the export step / garbage collection of another     *)
(* compiler process) changes concurrently under an exclusive flock.        *)
(* HashContext::hash is a pure function of the node and of the dep graph;  *)
(* SpecHash applies it to every node of every small dep graph.             *)
(***************************************************************************)
EXTENDS Integers, Sequences, FiniteSets, TLC

\* --------------------------------------------------------------- universe

\* CrateNum of the upstream crates (LOCAL_CRATE is excluded by the
\* debug_assert of metadata_hash).
Units == {1, 2}

\* DefIndex values.
Indices == {1, 2}

DefIds == [krate : Units, index : Indices]

\* Longest entry_hashes vector of an export payload.
MaxEntries == 2

\* Fingerprint is a pair of u64.  The second one equals
\* svh_to_fingerprint(crate_hash(1)): a stored hash may coincide with the
\* fallback value.
FileHashes == {<<1, 2>>, <<11, 11>>}

\* tcx.crate_hash(cnum): the Svh of the crate in this session.
crate_hash(cnum) == 10 + cnum

Svhs == {crate_hash(u) : u \in Units}

\* SerializedMetadataHash { def_index, hash }
SerializedMetadataHash == [def_index : Indices, hash : FileHashes]

EntryVectors == UNION {[1..n -> SerializedMetadataHash] : n \in 0..MaxEntries}

\* The bytes file_format::read_file hands to load_from_data, by what the
\* two decode calls make of them:
\*   svh_ok = FALSE      Svh::decode fails
\*   hashes_ok = FALSE   SerializedMetadataHashes::decode fails
Payloads ==
    [svh_ok : {TRUE}, svh : Svhs, hashes_ok : {TRUE}, entry_hashes : EntryVectors]
    \cup [svh_ok : {TRUE}, svh : Svhs, hashes_ok : {FALSE}, entry_hashes : {<<>>}]
    \cup [svh_ok : {FALSE}, svh : {0}, hashes_ok : {FALSE}, entry_hashes : {<<>>}]

\* DepKind: the five kinds HashContext::hash names, and three of the kinds
\* its `_` arm takes.
InputKinds == {"Krate", "InScopeTraits", "Hir", "MetaData", "HirBody"}

DepKinds == InputKinds \cup {"TypeckTables", "MirConst", "Coherence"}

\* DepNode { kind, hash }
DepNodes == [kind : DepKinds, hash : {1, 2}]

InputNodes == {n \in DepNodes : n.kind \in InputKinds}

\* Fingerprints the dep graph holds for its nodes.
GraphHashes == {<<3, 4>>, <<5, 6>>}

\* ------------------------------------------------------------------ state

VARIABLES
    metadata_hashes,  \* FxHashMap<DefId, Fingerprint>
    crate_hashes,     \* FxHashMap<CrateNum, Svh>
    pc,               \* position of the process: "idle", "lock", "read",
                      \* "decode", "loaded", "aborted"
    call,             \* <<id>> while metadata_hash(id) runs, else <<>>
    lock,             \* crates whose lock file this process holds (_lock)
    data,             \* <<bytes>>: what read_file returned, from the read
                      \* to the return of load_from_data
    err_count,        \* number of tcx.sess.err diagnostics emitted
    abort,            \* "none", or which bug!/assert! stopped the process
    dir,              \* dir[u]: the session directory of u is on disk
    lock_file,        \* lock_file[u]: "absent", "free" (nobody holds it
                      \* exclusively) or "excl" (a writer does)
    export,           \* export[u]: the hashes file in the session
                      \* directory, "absent" or "present"
    dep_graph,        \* tcx.dep_graph: input DepNode -> its Fingerprint
    hash_result,      \* <<dep_node, result>> of the last HashContext::hash
    \* history of the session
    returned,         \* returned[id]: the values metadata_hash(id) returned
    repeat,           \* the running or last call was for a DefId that a
                      \* call had returned a value for before
    loads,            \* loads[u]: how often load_data(u) was entered
    io,               \* I/O the running or last call made
    iters,            \* loop iterations of the running or last call
    outcome           \* outcome[u]: how load_data(u) returned, and the
                      \* Svh and entries it decoded

loader == <<metadata_hashes, crate_hashes, pc, call, lock, data, err_count,
            abort, returned, repeat, loads, io, iters, outcome>>

disk == <<dir, lock_file, export>>

hctx == <<dep_graph, hash_result>>

vars == <<loader, disk, hctx>>

NoOutcome == [kind |-> "none", svh |-> 0, entry_hashes |-> {}]

\* ---------------------------------------------------------------- helpers

Range(seq) == {seq[i] : i \in DOMAIN seq}

\* FxHashMap::insert: the map afterwards.
Insert(map, k, v) ==
    [x \in (DOMAIN map) \cup {k} |-> IF x = k THEN v ELSE map[x]]

\* Fingerprint::from_smaller_hash(hash) = Fingerprint(hash, hash)
from_smaller_hash(hash) == <<hash, hash>>

\* Svh::as_u64
as_u64(svh) == svh

svh_to_fingerprint(svh) == from_smaller_hash(as_u64(svh))

\* Mutant of EntryDefId: the two fields of the DefId swapped.
EntryDefIdSwapped(cnum, def_index) == [krate |-> def_index, index |-> cnum]

\* Mutant of EntryDefId: the def_index is not converted to the crate number
\* of this session, the entry is filed under the first crate.
EntryDefIdUnconverted(cnum, def_index) == [krate |-> 1, index |-> def_index]

\* DefId { krate: cnum, index: serialized_hash.def_index }
EntryDefId(cnum, def_index) == [krate |-> cnum, index |-> def_index]

\* Mutant of InsertEntries: the assert after the insert is missing, a later
\* entry silently replaces an earlier one.
RECURSIVE InsertEntriesNoAssert(_, _, _, _)
InsertEntriesNoAssert(mh, cnum, entries, i) ==
    IF i > Len(entries) THEN [result |-> "Ok", metadata_hashes |-> mh]
    ELSE InsertEntriesNoAssert(
             Insert(mh, EntryDefId(cnum, entries[i].def_index), entries[i].hash),
             cnum, entries, i + 1)

\* Mutant of InsertEntries: at an entry whose DefId has a hash already the
\* loop ends and load_from_data returns Ok(()), the rest is not inserted.
RECURSIVE InsertEntriesStopAtDuplicate(_, _, _, _)
InsertEntriesStopAtDuplicate(mh, cnum, entries, i) ==
    IF i > Len(entries) THEN [result |-> "Ok", metadata_hashes |-> mh]
    ELSE LET def_id == EntryDefId(cnum, entries[i].def_index)
         IN  IF def_id \notin DOMAIN mh
             THEN InsertEntriesStopAtDuplicate(
                      Insert(mh, def_id, entries[i].hash), cnum, entries, i + 1)
             ELSE [result |-> "Ok", metadata_hashes |-> mh]

\* The for loop of load_from_data from entry i on: every entry is inserted;
\* the assert after an insert that replaced a value stops the loop, with the
\* replaced value already in the map.
RECURSIVE InsertEntries(_, _, _, _)
InsertEntries(mh, cnum, entries, i) ==
    IF i > Len(entries) THEN [result |-> "Ok", metadata_hashes |-> mh]
    ELSE LET def_id == EntryDefId(cnum, entries[i].def_index)
             old_is_none == def_id \notin DOMAIN mh
             next == Insert(mh, def_id, entries[i].hash)
         IN  IF old_is_none
             THEN InsertEntries(next, cnum, entries, i + 1)
             ELSE [result |-> "assert_already_have_hash", metadata_hashes |-> next]

\* Mutant of load_from_data: the decoded Svh is not compared with the
\* expected one.
load_from_data_unchecked(mh, cnum, bytes, expected_svh) ==
    IF ~bytes.svh_ok \/ ~bytes.hashes_ok
    THEN [result |-> "Err", metadata_hashes |-> mh]
    ELSE InsertEntries(mh, cnum, bytes.entry_hashes, 1)

\* load_from_data(cnum, data, expected_svh) on the map mh: how it ends and
\* the map it leaves.
load_from_data(mh, cnum, bytes, expected_svh) ==
    IF ~bytes.svh_ok THEN [result |-> "Err", metadata_hashes |-> mh]
    ELSE IF bytes.svh # expected_svh
    THEN [result |-> "bug_svh_mismatch", metadata_hashes |-> mh]
    ELSE IF ~bytes.hashes_ok THEN [result |-> "Err", metadata_hashes |-> mh]
    ELSE InsertEntries(mh, cnum, bytes.entry_hashes, 1)

\* find_metadata_hashes_for(tcx, cnum) is Some(session_dir)
find_metadata_hashes_for(cnum) == dir[cnum]

\* Mutant of LockWait: a blocking flock.
LockWaitTrue == TRUE

\* flock::Lock::new(path, wait, create, exclusive) on the lock file of crate
\* cnum.  A missing file is an error unless `create`, which creates it; a
\* file another process holds exclusively is an error unless `wait`.  No
\* other process holds the file shared here, so an exclusive request
\* conflicts as a shared one does.
LockNew(cnum, wait, create, exclusive) ==
    IF lock_file[cnum] = "absent" THEN (IF create THEN "Ok" ELSE "Err")
    ELSE IF lock_file[cnum] = "excl" THEN (IF wait THEN "Blocked" ELSE "Err")
    ELSE "Ok"

\* The arguments load_data gives flock::Lock::new.
LockWait == FALSE

\* Mutant of LockCreate: the lock file is created when it is missing.
LockCreateTrue == TRUE

LockCreate == FALSE

LockExclusive == FALSE

\* ------------------------------------------------------------------- Init

InitLoader ==
    /\ metadata_hashes = <<>>
    /\ crate_hashes = <<>>
    /\ pc = "idle"
    /\ call = <<>>
    /\ lock = {}
    /\ data = <<>>
    /\ err_count = 0
    /\ abort = "none"
    /\ returned = [id \in DefIds |-> {}]
    /\ repeat = FALSE
    /\ loads = [u \in Units |-> 0]
    /\ io = {}
    /\ iters = 0
    /\ outcome = [u \in Units |-> NoOutcome]

\* What the writers' protocol can leave on disk for one crate: nothing, or
\* a lock file with or without the session directory it guards.
DiskOK(u) ==
    /\ dir[u] => lock_file[u] # "absent"
    /\ ~dir[u] => (lock_file[u] # "free" /\ export[u] = "absent")

Init ==
    /\ InitLoader
    /\ dir \in [Units -> BOOLEAN]
    /\ lock_file \in [Units -> {"absent", "free", "excl"}]
    /\ export \in [Units -> {"absent", "present"}]
    /\ \A u \in Units : DiskOK(u)
    /\ dep_graph = [n \in InputNodes |-> <<3, 4>>]
    /\ hash_result = <<>>

\* ------------------------------------------------- the metadata_hash loop

\* `return hash` of metadata_hash(id).
Return(id, hash) ==
    /\ pc' = "idle"
    /\ call' = <<>>
    /\ returned' = [returned EXCEPT ![id] = @ \cup {hash}]

\* The process stops in a bug! or a failed assert!: its flock goes with it.
Abort(why) ==
    /\ pc' = "aborted"
    /\ abort' = why
    /\ lock' = {}

\* Mutant of CachedHash: the cache of fingerprints is never consulted.
CachedHashNever(self, id) == FALSE

\* self.metadata_hashes.get(&id) is Some
CachedHash(self, id) == id \in DOMAIN self.metadata_hashes

\* Mutant of HaveCrateHash: the recorded crate hash is never found.
HaveCrateHashNever(self, cnum) == FALSE

\* self.crate_hashes.get(&id.krate) is Some
HaveCrateHash(self, cnum) == cnum \in DOMAIN self.crate_hashes

\* The fingerprint of the fallback: from the crate's recorded Svh.
FallbackFingerprint(self, id) == svh_to_fingerprint(self.crate_hashes[id.krate])

\* Mutant of FallbackInsert: the fallback fingerprint is returned but not
\* stored.
FallbackNoInsert(self, id, fingerprint) == self.metadata_hashes

\* self.metadata_hashes.insert(id, fingerprint) of the fallback
FallbackInsert(self, id, fingerprint) ==
    Insert(self.metadata_hashes, id, fingerprint)

\* Mutant of LoadDataBegin: the crate hash is looked up but not recorded.
LoadDataBeginNoRecord(self, cnum, io_done) ==
    /\ loads' = [loads EXCEPT ![cnum] = @ + 1]
    /\ crate_hashes' = self.crate_hashes
    /\ metadata_hashes' = self.metadata_hashes
    /\ io' = io_done \cup {"crate_hash", "locator"}
    /\ UNCHANGED <<abort, lock>>
    /\ IF find_metadata_hashes_for(cnum)
       THEN pc' = "lock" /\ UNCHANGED outcome
       ELSE /\ pc' = "loaded"
            /\ outcome' = [outcome EXCEPT ![cnum].kind = "not_found"]

\* load_data(cnum) up to the answer of the locator: the crate hash is
\* recorded, the assert checks that it is the first time, and
\* find_metadata_hashes_for is asked for a session directory.
LoadDataBegin(self, cnum, io_done) ==
    /\ loads' = [loads EXCEPT ![cnum] = @ + 1]
    /\ crate_hashes' = Insert(self.crate_hashes, cnum, crate_hash(cnum))
    /\ metadata_hashes' = self.metadata_hashes
    /\ IF cnum \in DOMAIN self.crate_hashes
       THEN /\ Abort("assert_loaded_twice")
            /\ io' = io_done \cup {"crate_hash"}
            /\ UNCHANGED outcome
       ELSE /\ io' = io_done \cup {"crate_hash", "locator"}
            /\ UNCHANGED <<abort, lock>>
            /\ IF find_metadata_hashes_for(cnum)
               THEN pc' = "lock" /\ UNCHANGED outcome
               ELSE /\ pc' = "loaded"
                    /\ outcome' = [outcome EXCEPT ![cnum].kind = "not_found"]

\* Mutant of LoopBody: the lookup of the crate hash, and the fallback with it,
\* is missing from the loop.
LoopBodySkipFallback(self, id, n, io_done) ==
    /\ iters' = n
    /\ IF CachedHash(self, id)
       THEN /\ Return(id, self.metadata_hashes[id])
            /\ metadata_hashes' = self.metadata_hashes
            /\ crate_hashes' = self.crate_hashes
            /\ io' = io_done
            /\ UNCHANGED <<lock, abort, loads, outcome>>
       ELSE /\ call' = <<id>>
            /\ LoadDataBegin(self, id.krate, io_done)
            /\ UNCHANGED returned
    /\ UNCHANGED <<data, err_count, disk, hctx>>

\* One pass through the body of the loop of metadata_hash(id) on the loader
\* self: the n-th of the call, which has made the I/O io_done so far.
LoopBody(self, id, n, io_done) ==
    /\ iters' = n
    /\ IF CachedHash(self, id)
       THEN /\ Return(id, self.metadata_hashes[id])
            /\ metadata_hashes' = self.metadata_hashes
            /\ crate_hashes' = self.crate_hashes
            /\ io' = io_done
            /\ UNCHANGED <<lock, abort, loads, outcome>>
       ELSE IF HaveCrateHash(self, id.krate)
       THEN LET fingerprint == FallbackFingerprint(self, id)
            IN  /\ metadata_hashes' = FallbackInsert(self, id, fingerprint)
                /\ crate_hashes' = self.crate_hashes
                /\ Return(id, fingerprint)
                /\ io' = io_done
                /\ UNCHANGED <<lock, abort, loads, outcome>>
       ELSE /\ call' = <<id>>
            /\ LoadDataBegin(self, id.krate, io_done)
            /\ UNCHANGED returned
    /\ UNCHANGED <<data, err_count, disk, hctx>>

\* Mutant of Loader: every call works on a loader of its own.
LoaderFresh == [metadata_hashes |-> <<>>, crate_hashes |-> <<>>]

\* The MetadataHashLoader that the closure of metadata_fingerprint owns: the
\* same one in every call.
Loader == [metadata_hashes |-> metadata_hashes, crate_hashes |-> crate_hashes]

\* A call metadata_hash(id) through the closure: the first pass through the
\* loop, which returns or enters load_data.
MetadataHash(id) ==
    /\ pc = "idle"
    /\ repeat' = (returned[id] # {})
    /\ LoopBody(Loader, id, 1, {})

\* load_data has returned: the assert of metadata_hash, then the next pass
\* through the loop.
Repeat ==
    /\ pc = "loaded"
    /\ LET self == [metadata_hashes |-> metadata_hashes,
                    crate_hashes |-> crate_hashes]
       IN  IF call[1].krate \in DOMAIN self.crate_hashes
           THEN LoopBody(self, call[1], iters + 1, io)
           ELSE /\ Abort("assert_contains_key")
                /\ UNCHANGED <<metadata_hashes, crate_hashes, call, data,
                               err_count, returned, loads, io, iters, outcome,
                               disk, hctx>>
    /\ UNCHANGED repeat

\* ---------------------------------------------------- the rest of load_data

\* Mutant of LoadDataEnd: the lock outlives load_data.
LoadDataEndKeepLock(cnum, how) ==
    /\ pc' = "loaded"
    /\ lock' = lock
    /\ data' = <<>>
    /\ outcome' = [outcome EXCEPT ![cnum] = how]

\* The end of load_data(cnum) with the lock held: _lock is dropped.
LoadDataEnd(cnum, how) ==
    /\ pc' = "loaded"
    /\ lock' = lock \ {cnum}
    /\ data' = <<>>
    /\ outcome' = [outcome EXCEPT ![cnum] = how]

\* Mutant of OnLockErr: the failure is reported with tcx.sess.err.
OnLockErrReport(cnum) ==
    /\ pc' = "loaded"
    /\ outcome' = [outcome EXCEPT ![cnum].kind = "lock_failed"]
    /\ err_count' = err_count + 1
    /\ UNCHANGED <<lock, lock_file, abort>>

\* The Err(err) arm of the match on flock::Lock::new: debug!, and return.
OnLockErr(cnum) ==
    /\ pc' = "loaded"
    /\ outcome' = [outcome EXCEPT ![cnum].kind = "lock_failed"]
    /\ UNCHANGED <<lock, lock_file, err_count, abort>>

\* Lock the directory we'll be reading the hashes from: flock::Lock::new
\* and the match on its result.  A waiting flock does not return before the
\* exclusive holder lets go.
AcquireLock ==
    /\ pc = "lock"
    /\ LET cnum == call[1].krate
           result == LockNew(cnum, LockWait, LockCreate, LockExclusive)
       IN  /\ result # "Blocked"
           /\ IF result = "Err"
              THEN OnLockErr(cnum)
              ELSE /\ lock' = lock \cup {cnum}
                   /\ lock_file' = [lock_file EXCEPT ![cnum] = "free"]
                   /\ pc' = "read"
                   /\ UNCHANGED <<outcome, err_count, abort>>
    /\ io' = io \cup {"lock"}
    /\ UNCHANGED <<metadata_hashes, crate_hashes, call, data, returned,
                   repeat, loads, iters, dir, export, hctx>>

\* file_format::read_file answers Ok(None): the hashes file is not there.
ReadFileNone ==
    /\ pc = "read"
    /\ export[call[1].krate] = "absent"
    /\ io' = io \cup {"read"}
    /\ LoadDataEnd(call[1].krate,
                   [kind |-> "file_absent", svh |-> 0, entry_hashes |-> {}])
    /\ UNCHANGED <<metadata_hashes, crate_hashes, call, err_count, abort,
                   returned, repeat, loads, iters, disk, hctx>>

\* Mutant of ReadFileErr: the error is swallowed.
ReadFileErrSilent ==
    /\ pc = "read"
    /\ io' = io \cup {"read"}
    /\ LoadDataEnd(call[1].krate,
                   [kind |-> "read_error", svh |-> 0, entry_hashes |-> {}])
    /\ UNCHANGED <<metadata_hashes, crate_hashes, call, err_count, abort,
                   returned, repeat, loads, iters, disk, hctx>>

\* file_format::read_file answers Err(err): tcx.sess.err reports it.
ReadFileErr ==
    /\ pc = "read"
    /\ io' = io \cup {"read"}
    /\ err_count' = err_count + 1
    /\ LoadDataEnd(call[1].krate,
                   [kind |-> "read_error", svh |-> 0, entry_hashes |-> {}])
    /\ UNCHANGED <<metadata_hashes, crate_hashes, call, abort, returned,
                   repeat, loads, iters, disk, hctx>>

\* Mutant of ReadFileSome: the lock is let go as soon as the bytes are read.
ReadFileSomeUnlock(bytes) ==
    /\ pc = "read"
    /\ export[call[1].krate] = "present"
    /\ io' = io \cup {"read"}
    /\ data' = <<bytes>>
    /\ pc' = "decode"
    /\ lock' = lock \ {call[1].krate}
    /\ UNCHANGED <<metadata_hashes, crate_hashes, call, err_count,
                   abort, returned, repeat, loads, iters, outcome, disk, hctx>>

\* file_format::read_file answers Ok(Some(data)).
ReadFileSome(bytes) ==
    /\ pc = "read"
    /\ export[call[1].krate] = "present"
    /\ io' = io \cup {"read"}
    /\ data' = <<bytes>>
    /\ pc' = "decode"
    /\ UNCHANGED <<metadata_hashes, crate_hashes, call, lock, err_count,
                   abort, returned, repeat, loads, iters, outcome, disk, hctx>>

\* The Ok(Some(data)) arm of load_data: load_from_data, and bug! on Err.
LoadFromData ==
    /\ pc = "decode"
    /\ LET cnum == call[1].krate
           svh == crate_hashes[cnum]
           r == load_from_data(metadata_hashes, cnum, data[1], svh)
       IN  /\ metadata_hashes' = r.metadata_hashes
           /\ IF r.result = "Ok"
              THEN /\ LoadDataEnd(cnum, [kind |-> "decoded",
                                         svh |-> data[1].svh,
                                         entry_hashes |-> Range(data[1].entry_hashes)])
                   /\ UNCHANGED abort
              ELSE /\ Abort(IF r.result = "Err" THEN "bug_decoding_error"
                            ELSE r.result)
                   /\ UNCHANGED <<outcome, data>>
    /\ UNCHANGED <<crate_hashes, call, err_count, returned, repeat, loads,
                   io, iters, disk, hctx>>

\* ------------------------------------------------------------ the writers
\* Other compiler processes: the export step that creates a session
\* directory and saves the hashes file, and the garbage collection that
\* deletes it; both work under the exclusive lock of the lock file.  They
\* stop with the session.

\* A session directory of u is begun: its lock file is created and locked.
WriterCreate(u) ==
    /\ pc # "aborted"
    /\ lock_file[u] = "absent"
    /\ lock_file' = [lock_file EXCEPT ![u] = "excl"]
    /\ UNCHANGED <<dir, export, loader, hctx>>

WriterMkdir(u) ==
    /\ pc # "aborted"
    /\ lock_file[u] = "excl" /\ ~dir[u]
    /\ dir' = [dir EXCEPT ![u] = TRUE]
    /\ UNCHANGED <<lock_file, export, loader, hctx>>

\* The export step writes the hashes file of u.
WriterSave(u) ==
    /\ pc # "aborted"
    /\ lock_file[u] = "excl" /\ dir[u] /\ export[u] = "absent"
    /\ export' = [export EXCEPT ![u] = "present"]
    /\ UNCHANGED <<dir, lock_file, loader, hctx>>

WriterUnlock(u) ==
    /\ pc # "aborted"
    /\ lock_file[u] = "excl" /\ dir[u]
    /\ lock_file' = [lock_file EXCEPT ![u] = "free"]
    /\ UNCHANGED <<dir, export, loader, hctx>>

\* An exclusive flock is granted only while no shared one is held.
WriterLock(u) ==
    /\ pc # "aborted"
    /\ lock_file[u] = "free" /\ u \notin lock
    /\ lock_file' = [lock_file EXCEPT ![u] = "excl"]
    /\ UNCHANGED <<dir, export, loader, hctx>>

\* Garbage collection deletes the session directory of u ...
WriterRmdir(u) ==
    /\ pc # "aborted"
    /\ lock_file[u] = "excl" /\ dir[u]
    /\ dir' = [dir EXCEPT ![u] = FALSE]
    /\ export' = [export EXCEPT ![u] = "absent"]
    /\ UNCHANGED <<lock_file, loader, hctx>>

\* ... and then its lock file.
WriterRemoveLock(u) ==
    /\ pc # "aborted"
    /\ lock_file[u] = "excl" /\ ~dir[u]
    /\ lock_file' = [lock_file EXCEPT ![u] = "absent"]
    /\ UNCHANGED <<dir, export, loader, hctx>>

\* ------------------------------------------------------------------- Next

Next ==
    \/ \E id \in DefIds : MetadataHash(id)
    \/ Repeat
    \/ AcquireLock
    \/ ReadFileNone
    \/ ReadFileErr
    \/ \E bytes \in Payloads : ReadFileSome(bytes)
    \/ LoadFromData
    \/ \E u \in Units : WriterCreate(u)
    \/ \E u \in Units : WriterMkdir(u)
    \/ \E u \in Units : WriterSave(u)
    \/ \E u \in Units : WriterUnlock(u)
    \/ \E u \in Units : WriterLock(u)
    \/ \E u \in Units : WriterRmdir(u)
    \/ \E u \in Units : WriterRemoveLock(u)

Spec == Init /\ [][Next]_vars

\* The statements of a running metadata_hash call.  The caller is one
\* sequential thread and every call the loop makes is synchronous, so a call
\* that has a next statement executes it.
ReaderStep ==
    \/ Repeat
    \/ AcquireLock
    \/ ReadFileNone
    \/ ReadFileErr
    \/ (pc = "read" /\ \E bytes \in Payloads : ReadFileSome(bytes))
    \/ LoadFromData

SpecFair == Spec /\ WF_vars(ReaderStep)

\* ------------------------------------------------------ HashContext::hash

\* Mutant of hash: the HirBody arm is missing.
hash_without_HirBody(dep_node) ==
    IF dep_node.kind \in {"Krate", "InScopeTraits", "Hir", "MetaData"}
    THEN <<"Some", dep_graph[dep_node]>>
    ELSE <<"None">>

\* HashContext::hash(dep_node): Some(fingerprint) or None.
hash(dep_node) ==
    IF dep_node.kind \in {"Krate", "InScopeTraits", "Hir", "MetaData", "HirBody"}
    THEN <<"Some", dep_graph[dep_node]>>
    ELSE <<"None">>

Hash(dep_node) ==
    /\ hash_result' = <<dep_node, hash(dep_node)>>
    /\ UNCHANGED <<dep_graph, loader, disk>>

InitHash ==
    /\ InitLoader
    /\ dir = [u \in Units |-> FALSE]
    /\ lock_file = [u \in Units |-> "absent"]
    /\ export = [u \in Units |-> "absent"]
    /\ dep_graph \in [InputNodes -> GraphHashes]
    /\ hash_result = <<>>

NextHash == \E dep_node \in DepNodes : Hash(dep_node)

SpecHash == InitHash /\ [][NextHash]_vars

\* ----------------------------------------------------------- the claims

DefsOf(u) == {id \in DefIds : id.krate = u}

\* The local indices the decoded export of u lists.
Listed(u) == {e.def_index : e \in outcome[u].entry_hashes}

\* What read-file data must be for load_from_data to accept it for crate u.
GoodPayload(bytes, u) ==
    /\ bytes.svh_ok /\ bytes.hashes_ok
    /\ bytes.svh = crate_hash(u)
    /\ \A i, j \in DOMAIN bytes.entry_hashes :
          bytes.entry_hashes[i].def_index = bytes.entry_hashes[j].def_index
             => i = j

\* The crates whose load ended in a reported read error.
ReadErrors == {u \in Units : outcome[u].kind = "read_error"}

\* load_data(u) returned without any entry of an export file: the crate
\* hash of this session is recorded, the only fingerprints of u in the map
\* are the fallback of the DefIds that were asked for, the calls returned
\* nothing else, and the process did not stop in the load of u.
ResolvedByFallback(u) ==
    /\ u \in DOMAIN crate_hashes
    /\ crate_hashes[u] = crate_hash(u)
    /\ \A id \in DefsOf(u) :
          /\ id \in DOMAIN metadata_hashes <=> returned[id] # {}
          /\ id \in DOMAIN metadata_hashes
                => metadata_hashes[id] = svh_to_fingerprint(crate_hashes[u])
          /\ returned[id] \subseteq {svh_to_fingerprint(crate_hashes[u])}
    /\ pc = "aborted" => call[1].krate # u

\* C1: load_data is entered at most once for every crate, however many
\* DefIds of the crate are asked for and however the first load ended.
C1_AtMostOnceLoad == \A u \in Units : loads[u] <= 1

\* A crate whose load failed to take the lock, with all its DefIds resolved.
C1_Witness ==
    \E u \in Units :
        /\ loads[u] = 1
        /\ outcome[u].kind = "lock_failed"
        /\ \A id \in DefsOf(u) : returned[id] # {}

\* C2: all the calls for one DefId return the same value, and a call for a
\* DefId that a value was returned for before returns in its first pass
\* through the loop without any I/O.
C2_CacheHitStable ==
    /\ \A id \in DefIds : Cardinality(returned[id]) <= 1
    /\ repeat => (pc = "idle" /\ io = {} /\ iters = 1)

\* A repeated call after every crate was loaded, one of them from an export
\* that is gone from the disk since.
C2_Witness ==
    /\ repeat
    /\ \A u \in Units : loads[u] = 1
    /\ \E u \in Units : outcome[u].kind = "decoded" /\ ~dir[u]
                        /\ \E id \in DefsOf(u) : id.index \in Listed(u)
                                                 /\ returned[id] # {}

\* C3: a call for a DefId that the load of its crate put no entry in the
\* map for returns the fingerprint derived from the recorded crate hash, and
\* the map holds the DefId with that fingerprint afterwards.
C3_Fallback ==
    \A id \in DefIds :
        (outcome[id.krate].kind # "none" /\ id.index \notin Listed(id.krate)
         /\ returned[id] # {})
        => /\ id.krate \in DOMAIN crate_hashes
           /\ returned[id] = {svh_to_fingerprint(crate_hashes[id.krate])}
           /\ id \in DOMAIN metadata_hashes
           /\ metadata_hashes[id] = svh_to_fingerprint(crate_hashes[id.krate])

\* An export was decoded that lists one index, and the other one was asked.
C3_Witness ==
    \E id \in DefIds :
        /\ outcome[id.krate].kind = "decoded"
        /\ Listed(id.krate) # {}
        /\ id.index \notin Listed(id.krate)
        /\ returned[id] # {}

\* C4: data with the crate's Svh and every index at most once is accepted
\* (the process does not stop in it), and every (index, hash) of it is in the
\* map as stored and is what the calls for that DefId return.
C4_ExportedAsStored ==
    /\ (pc = "aborted" /\ data # <<>>) => ~GoodPayload(data[1], call[1].krate)
    /\ \A u \in Units :
          outcome[u].kind = "decoded" =>
             \A e \in outcome[u].entry_hashes :
                LET id == [krate |-> u, index |-> e.def_index]
                IN  /\ id \in DOMAIN metadata_hashes
                    /\ metadata_hashes[id] = e.hash
                    /\ returned[id] \subseteq {e.hash}

\* A listed DefId, with a hash that is not the fallback, was the first and
\* only DefId asked of a crate whose export lists two.
C4_Witness ==
    \E u \in Units : \E e \in outcome[u].entry_hashes :
        /\ outcome[u].kind = "decoded"
        /\ Cardinality(outcome[u].entry_hashes) = 2
        /\ e.hash # svh_to_fingerprint(crate_hash(u))
        /\ \A id \in DefsOf(u) :
              returned[id] = IF id.index = e.def_index THEN {e.hash} ELSE {}

\* C5: data whose Svh differs from the crate's stops the process with the
\* mismatch bug!, with no entry of the crate in the map and no value ever
\* returned for it; no load that returned has decoded another Svh.
C5_SvhMismatchAborts ==
    /\ \A u \in Units :
          outcome[u].kind = "decoded" => outcome[u].svh = crate_hash(u)
    /\ (data # <<>> /\ pc # "decode" /\ data[1].svh_ok
        /\ data[1].svh # crate_hash(call[1].krate))
       => /\ pc = "aborted"
          /\ abort = "bug_svh_mismatch"
          /\ \A id \in DefsOf(call[1].krate) :
                id \notin DOMAIN metadata_hashes /\ returned[id] = {}

\* The process stopped on data with another Svh and with entries.
C5_Witness ==
    /\ pc = "aborted"
    /\ abort = "bug_svh_mismatch"
    /\ data[1].hashes_ok /\ data[1].entry_hashes # <<>>

\* C6: after "no session directory", "lock not acquired" and "file absent"
\* alike, load_data has returned with the crate hash recorded, nothing in
\* the fingerprint map, no diagnostic and no abort, and the DefIds of the
\* crate resolve to the fallback.
C6_SoftFailure ==
    /\ \A u \in Units :
          outcome[u].kind \in {"not_found", "lock_failed", "file_absent"}
             => ResolvedByFallback(u)
    /\ err_count = Cardinality(ReadErrors)

\* One crate failed to take the lock, the other found no file, and a DefId
\* of each was resolved.
C6_Witness ==
    \E u, v \in Units :
        /\ outcome[u].kind = "lock_failed"
        /\ outcome[v].kind = "file_absent"
        /\ \E id \in DefsOf(u) : returned[id] # {}
        /\ \E id \in DefsOf(v) : returned[id] # {}

\* C7: a read error is reported with exactly one diagnostic, does not stop
\* the process and leaves the fingerprint map alone; the DefIds of the crate
\* resolve to the fallback.
C7_ReadErrorReported ==
    /\ err_count = Cardinality(ReadErrors)
    /\ \A u \in ReadErrors : ResolvedByFallback(u)

\* A crate whose read failed, with all its DefIds resolved.
C7_Witness ==
    \E u \in ReadErrors :
        /\ err_count = 1
        /\ \A id \in DefsOf(u) : returned[id] # {}

\* C8: hash answers Some exactly for the nodes of the five input kinds, with
\* the fingerprint the dep graph holds for that node, and None otherwise.
C8_Classifier ==
    hash_result # <<>> =>
        LET dep_node == hash_result[1]
            result == hash_result[2]
        IN  IF dep_node.kind \in InputKinds
            THEN result = <<"Some", dep_graph[dep_node]>>
            ELSE result = <<"None">>

\* A HirBody node was hashed, in a graph that tells it from the other
\* HirBody node.
C8_Witness ==
    /\ hash_result # <<>>
    /\ hash_result[1] = [kind |-> "HirBody", hash |-> 2]
    /\ dep_graph[[kind |-> "HirBody", hash |-> 1]] # dep_graph[hash_result[1]]
    /\ hash_result[2] = <<"Some", dep_graph[hash_result[1]]>>

C10_LockReleased == lock # {} => pc \in {"read", "decode"}

\* The process stopped on a duplicate entry, after the load of the other
\* crate found no file.
C10_Witness ==
    /\ pc = "aborted"
    /\ abort = "assert_already_have_hash"
    /\ \E u \in Units : outcome[u].kind = "file_absent"
    /\ lock = {}

\* C11 as stated: once read_file has handed over the bytes, that is by the
\* time load_from_data decodes, checks and applies them, the lock is released.
C11_ReleasedBeforeDecode == data # <<>> => lock = {}

\* C11, amended: the lock is held from its acquisition to the end of
\* load_data, through the read and through load_from_data: when the bytes are
\* about to be decoded, checked and applied the process holds exactly the
\* lock of the crate it loads, and it holds none once load_data has returned
\* or the process has stopped.
C11_LockHeldThroughDecode ==
    /\ pc = "decode" => (data # <<>> /\ lock = {call[1].krate})
    /\ pc = "read" => (data = <<>> /\ lock = {call[1].krate})
    /\ pc \in {"idle", "lock", "loaded", "aborted"} => lock = {}

\* Acceptable data with entries is with load_from_data and the lock is held.
C11_Witness ==
    /\ pc = "decode"
    /\ GoodPayload(data[1], call[1].krate)
    /\ data[1].entry_hashes # <<>>
    /\ call[1].krate \in lock

\* Every key of map old is a key of map new, with the same value.
Extends(old, new) ==
    \A k \in DOMAIN old : k \in DOMAIN new /\ new[k] = old[k]

HasDuplicate(bytes) ==
    \E i, j \in DOMAIN bytes.entry_hashes :
        i # j /\ bytes.entry_hashes[i].def_index = bytes.entry_hashes[j].def_index

\* The entry vector lists a def_index whose DefId in crate cnum has a
\* fingerprint in the map already.
Collides(bytes, cnum) ==
    \E i \in DOMAIN bytes.entry_hashes :
        EntryDefId(cnum, bytes.entry_hashes[i].def_index) \in DOMAIN metadata_hashes

\* C13: load_from_data on data with the expected Svh that lists a def_index
\* twice, or one whose DefId is in the map already, does not return: the
\* process stops in the assert "already have hash" and no call returns a
\* value in that step; once the process has stopped no call returns.
C13_DuplicateFatal ==
    [][/\ (/\ pc = "decode" /\ pc' # "decode"
           /\ data[1].svh_ok /\ data[1].hashes_ok
           /\ data[1].svh = crate_hashes[call[1].krate]
           /\ (HasDuplicate(data[1]) \/ Collides(data[1], call[1].krate)))
          => (/\ pc' = "aborted"
              /\ abort' = "assert_already_have_hash"
              /\ returned' = returned)
       /\ pc = "aborted"
          => (pc' = "aborted" /\ abort' = abort /\ returned' = returned)]_vars

\* The process stopped on data that lists the same entry twice, after a
\* DefId of the other crate was resolved.
C13_Witness ==
    /\ pc = "aborted"
    /\ abort = "assert_already_have_hash"
    /\ Len(data[1].entry_hashes) = 2
    /\ data[1].entry_hashes[1] = data[1].entry_hashes[2]
    /\ \E id \in DefIds : id.krate # call[1].krate /\ returned[id] # {}

\* C14: from the first statement of load_data on, and so when it returns,
\* the crate has its entry in crate_hashes; neither the assert of
\* metadata_hash ("contains_key") nor the assert of load_data ("loaded
\* twice") ever fails; the process stops only in load_from_data, on data
\* that read_file returned from an export file that is on disk.
C14_LoadPostcondition ==
    /\ pc \in {"lock", "read", "decode", "loaded"}
          => /\ call[1].krate \in DOMAIN crate_hashes
             /\ crate_hashes[call[1].krate] = crate_hash(call[1].krate)
    /\ \A u \in Units : outcome[u].kind # "none" => u \in DOMAIN crate_hashes
    /\ abort \notin {"assert_contains_key", "assert_loaded_twice"}
    /\ pc = "aborted" <=> abort # "none"
    /\ pc = "aborted"
          => /\ abort \in {"bug_svh_mismatch", "bug_decoding_error",
                           "assert_already_have_hash"}
             /\ data # <<>>
             /\ "read" \in io
             /\ export[call[1].krate] = "present"

\* The process stopped on data whose entries do not decode, after the load
\* of the other crate had returned without a session directory.
C14_Witness ==
    /\ pc = "aborted"
    /\ abort = "bug_decoding_error"
    /\ data[1].svh_ok /\ ~data[1].hashes_ok
    /\ \E u \in Units : outcome[u].kind = "not_found" /\ u \in DOMAIN crate_hashes

\* C15: a running metadata_hash call returns or stops the process; it enters
\* the loop body at most twice, and load_data only in the first pass: the
\* second pass always returns.
C15_Termination ==
    /\ [](iters <= 2)
    /\ [](pc \in {"lock", "read", "decode", "loaded"} => iters = 1)
    /\ [](iters = 2 => (pc = "idle" /\ "crate_hash" \in io))
    /\ (pc \notin {"idle", "aborted"}) ~> (pc \in {"idle", "aborted"})

\* A call has returned from its second pass, after a load that waited for
\* nothing: the lock file was held by a writer.
C15_Witness ==
    /\ pc = "idle"
    /\ iters = 2
    /\ \E u \in Units : outcome[u].kind = "lock_failed" /\ lock_file[u] = "excl"
                        /\ \E id \in DefsOf(u) : returned[id] # {}

\* C16: when load_from_data has returned, every (def_index, hash) of the data
\* is in the map; while the process runs, every fingerprint in the map is an
\* entry of data that was applied as a whole or the fallback that a call
\* returned, and nothing of the crate is in the map before its data is
\* applied; a stop in load_data leaves no value returned for the crate.
C16_NoPartialApplication ==
    /\ \A u \in Units :
          outcome[u].kind = "decoded" =>
             \A e \in outcome[u].entry_hashes :
                /\ EntryDefId(u, e.def_index) \in DOMAIN metadata_hashes
                /\ metadata_hashes[EntryDefId(u, e.def_index)] = e.hash
    /\ pc # "aborted" =>
          \A id \in DOMAIN metadata_hashes :
             \/ /\ outcome[id.krate].kind = "decoded"
                /\ [def_index |-> id.index, hash |-> metadata_hashes[id]]
                      \in outcome[id.krate].entry_hashes
             \/ /\ outcome[id.krate].kind # "none"
                /\ id.index \notin Listed(id.krate)
                /\ metadata_hashes[id] = svh_to_fingerprint(crate_hashes[id.krate])
                /\ returned[id] = {metadata_hashes[id]}
    /\ pc \in {"lock", "read", "decode"} =>
          DefsOf(call[1].krate) \cap DOMAIN metadata_hashes = {}
    /\ pc = "aborted" => \A id \in DefsOf(call[1].krate) : returned[id] = {}

\* Data with two entries was applied, and both DefIds were asked for and
\* answered with the hashes of the data, which differ.
C16_Witness ==
    \E u \in Units :
        /\ outcome[u].kind = "decoded"
        /\ Cardinality(Listed(u)) = 2
        /\ \A id \in DefsOf(u) : returned[id] = {metadata_hashes[id]}
        /\ \E id1, id2 \in DefsOf(u) : metadata_hashes[id1] # metadata_hashes[id2]

\* C17: no step of a metadata_hash call changes the disk: the session
\* directory, the lock file and the export file are after the step what they
\* were before it.  A lock attempt on a lock file that is not there ends
\* load_data with the lock not taken and the file still not there.
C17_DiskReadOnly ==
    [][/\ loader' # loader => disk' = disk
       /\ (pc = "lock" /\ pc' # "lock" /\ lock_file[call[1].krate] = "absent")
          => (/\ pc' = "loaded"
              /\ outcome'[call[1].krate].kind = "lock_failed"
              /\ lock_file'[call[1].krate] = "absent"
              /\ lock' = {})]_vars

\* The session directory and its lock file were deleted between the answer
\* of the locator and the lock attempt, which has just failed.
C17_Witness ==
    /\ pc = "loaded"
    /\ outcome[call[1].krate].kind = "lock_failed"
    /\ lock_file[call[1].krate] = "absent"
    /\ ~dir[call[1].krate]

\* load_data(u) has returned without data of an export file.
Soft(u) ==
    outcome[u].kind \in {"not_found", "lock_failed", "file_absent", "read_error"}

\* C18: once load_data(u) has returned without export data, no step enters
\* load_data(u) again or gets to the lock or the read for u, whatever has
\* appeared on disk since; the process does not stop in a call for u, and
\* every value returned or stored for a DefId of u is the fallback of the
\* crate hash of u.
C18_NoRetry ==
    [][\A u \in Units :
          Soft(u) =>
             /\ loads[u] = 1 /\ loads'[u] = 1
             /\ outcome'[u] = outcome[u]
             /\ pc' \in {"lock", "read", "decode"} => call'[1].krate # u
             /\ pc' = "aborted" => call'[1].krate # u
             /\ \A id \in DefsOf(u) :
                   /\ returned'[id] \subseteq {svh_to_fingerprint(crate_hash(u))}
                   /\ id \in DOMAIN metadata_hashes'
                         => metadata_hashes'[id] = svh_to_fingerprint(crate_hash(u))
                   /\ MetadataHash(id)
                         => (pc' = "idle" /\ io' = {}
                             /\ returned'[id] = {svh_to_fingerprint(crate_hash(u))})]_vars

\* The locator found no session directory for the crate; now the directory,
\* an unlocked lock file and the export file are there, every DefId of the
\* crate is resolved and one of them was asked for again (no DefId of the
\* other crate was asked for at all).
C18_Witness ==
    \E u \in Units :
        /\ outcome[u].kind = "not_found"
        /\ dir[u] /\ lock_file[u] = "free" /\ export[u] = "present"
        /\ \A id \in DefsOf(u) : returned[id] # {}
        /\ \A v \in Units \ {u} : loads[v] = 0
        /\ repeat
        /\ pc = "idle"

\* C19: every DefId that has a fingerprint in metadata_hashes is of a crate
\* that has its Svh in crate_hashes, and a crate whose load_data was never
\* entered has neither.
C19_DefsOfLoadedUnits ==
    /\ \A id \in DOMAIN metadata_hashes : id.krate \in DOMAIN crate_hashes
    /\ \A u \in Units :
          loads[u] = 0 => /\ u \notin DOMAIN crate_hashes
                          /\ DefsOf(u) \cap DOMAIN metadata_hashes = {}

\* One crate has all its DefIds in the map, from an export and from the
\* fallback, and the other crate was never asked for.
C19_Witness ==
    \E u, v \in Units :
        /\ outcome[u].kind = "decoded"
        /\ Cardinality(Listed(u)) = 1
        /\ DefsOf(u) \subseteq DOMAIN metadata_hashes
        /\ loads[v] = 0
        /\ DOMAIN crate_hashes = {u}

\* The step is one of a metadata_hash call for a DefId of crate u: a
\* statement of the running call, or the call itself with its first pass.
InCallFor(u) ==
    \/ call # <<>> /\ call[1].krate = u
    \/ pc = "idle" /\ \E id \in DefsOf(u) : MetadataHash(id)

\* C20: a step of a metadata_hash call for a DefId of crate u adds to
\* metadata_hashes only DefIds of u and to crate_hashes only u, and leaves
\* every entry of the two maps that is of another crate as it was.
C20_UnitIsolation ==
    [][\A u \in Units :
          InCallFor(u) =>
             /\ \A k \in DOMAIN metadata_hashes' \ DOMAIN metadata_hashes :
                   k.krate = u
             /\ DOMAIN crate_hashes' \ DOMAIN crate_hashes \subseteq {u}
             /\ \A k \in DOMAIN metadata_hashes :
                   k.krate # u => /\ k \in DOMAIN metadata_hashes'
                                  /\ metadata_hashes'[k] = metadata_hashes[k]
             /\ \A v \in DOMAIN crate_hashes :
                   v # u => /\ v \in DOMAIN crate_hashes'
                            /\ crate_hashes'[v] = crate_hashes[v]]_vars

\* Both crates were loaded from exports that list one DefId each, with
\* different hashes, and every DefId has its fingerprint.
C20_Witness ==
    /\ \A u \in Units : outcome[u].kind = "decoded" /\ Cardinality(Listed(u)) = 1
    /\ \E u, v \in Units : outcome[u].entry_hashes # outcome[v].entry_hashes
    /\ DOMAIN metadata_hashes = DefIds
    /\ \A id \in DefIds : returned[id] # {}

TypeOK ==
    /\ DOMAIN metadata_hashes \subseteq DefIds
    /\ DOMAIN crate_hashes \subseteq Units
    /\ pc \in {"idle", "lock", "read", "decode", "loaded", "aborted"}
    /\ lock \subseteq Units
    /\ err_count \in 0..Cardinality(Units)
    /\ \A u \in Units : DiskOK(u)
====
